---- MODULE Spec2Model ----
(***************************************************************************)
(* Model of com.juanjonol.unlock.py: the credential store kept in one JSON *)
(* file, and the subcommands execute / add / delete / replace that read    *)
(* and rewrite it and drive diskutil.  One run of a subcommand is one      *)
(* action; the outcomes of the external commands and the text typed at the *)
(* prompts are the action's inputs.  Exit ends the process: what it        *)
(* printed and issued is gone, the file stays.                             *)
(***************************************************************************)
EXTENDS Integers, Sequences, FiniteSets, TLC

VARIABLES
    file,     \* the file at passwords_path: [exists, bytes, uid, mode]
    folder,   \* its parent directory: [exists, mode]
    call,     \* the command line and the external inputs of the run
    pre,      \* the file as it was when the run started
    stdout,   \* what the run printed, one tuple of strings per print
    cmds,     \* the diskutil commands the run issued, with their results
    raised,   \* the exception that ended the last run, NoException if none
    pc,       \* "shell": no process is running; "exit": main() has returned;
              \* "running": a process is between two of its file system calls
    proc,     \* the process that is running: where it will end, and the file
              \* system calls it has still to make
    seen,     \* what another process, loading the file meanwhile, got
    returned  \* what the function that was called returned

vars == <<file, folder, call, pre, stdout, cmds, raised, pc, proc, seen, returned>>

----------------------------------------------------------------------------
(* Program constants and the values the runs draw their inputs from *)

passwords_path == "/Library/PrivilegedHelperTools/Generated_Files/com.juanjonol.unlock.json"
DISK_TYPE_APFS == "APFS"
DISK_TYPE_CORESTORAGE == "CoreStorage"

\* at most this many records are ever in the file
MaxRecords == 2

UUIDs == {"ABCD-1", "ABCD-2", "ABCD-3"}
Passwords == {"x", "wrong"}
\* --type is a free string: argparse does not restrict it
DiskTypes == {DISK_TYPE_CORESTORAGE, DISK_TYPE_APFS, "HFS"}

folder_permissions == {"S_IRUSR", "S_IWUSR", "S_IXUSR"}
file_permissions == {"S_IRUSR", "S_IWUSR"}

NoException == [type |-> "None", args |-> <<>>]

\* the value of a function that returns nothing
None == [none |-> TRUE]

\* at most this many words are in the output of "diskutil info"
MaxWords == 3

\* the label the UUID follows, as one word
LABEL == "Disk / Partition UUID:"

\* the words "diskutil info" prints, with white space between them
Words == {LABEL, "HFS+", "APFS", "ABCD-1"}

Disks == {"/dev/disk2s1"}

----------------------------------------------------------------------------
(* json.dumps / json.loads on a list of {uuid: [password, disk_type]}.     *)
(* The file content is a sequence of tokens: the punctuation of the JSON   *)
(* text, the newline print() adds, and one token per string.               *)

LBRACKET == <<"[">>
RBRACKET == <<"]">>
LBRACE == <<"{">>
RBRACE == <<"}">>
COLON == <<":">>
COMMA == <<",">>
NEWLINE == <<"\n">>

Str(s) == <<"str", s>>

IsStr(t) == Len(t) = 2 /\ t[1] = "str"

\* the two elements of the list in the other order
dump_record_swapped(d) ==
    <<LBRACE, Str(d.uuid), COLON, LBRACKET, Str(d.disk_type), COMMA,
      Str(d.password), RBRACKET, RBRACE>>

\* {"uuid": ["password", "disk_type"]}
dump_record(d) ==
    <<LBRACE, Str(d.uuid), COLON, LBRACKET, Str(d.password), COMMA,
      Str(d.disk_type), RBRACKET, RBRACE>>

RECURSIVE dump_items(_)
dump_items(data) ==
    IF data = <<>> THEN <<>>
    ELSE IF Len(data) = 1 THEN dump_record(data[1])
    ELSE dump_record(data[1]) \o <<COMMA>> \o dump_items(Tail(data))

json_dumps(data) == <<LBRACKET>> \o dump_items(data) \o <<RBRACKET>>

RECURSIVE rstrip(_)
rstrip(s) ==
    IF s # <<>> /\ s[Len(s)] = NEWLINE THEN rstrip(SubSeq(s, 1, Len(s) - 1)) ELSE s

\* the nine tokens of t from offset o on are one record
IsRecord(t, o) ==
    /\ t[o + 1] = LBRACE
    /\ IsStr(t[o + 2])
    /\ t[o + 3] = COLON
    /\ t[o + 4] = LBRACKET
    /\ IsStr(t[o + 5])
    /\ t[o + 6] = COMMA
    /\ IsStr(t[o + 7])
    /\ t[o + 8] = RBRACKET
    /\ t[o + 9] = RBRACE

load_record(t, o) ==
    [uuid |-> t[o + 2][2], password |-> t[o + 5][2], disk_type |-> t[o + 7][2]]

Num(n) == <<"num", n>>

\* the text is one list of records separated by commas
IsRecordList(b) ==
    LET n == (Len(b) - 1) \div 10 IN
    /\ Len(b) >= 2
    /\ b[1] = LBRACKET
    /\ b[Len(b)] = RBRACKET
    /\ \/ Len(b) = 2
       \/ /\ Len(b) = 10 * n + 1
          /\ \A k \in 1..n : IsRecord(b, 10 * (k - 1) + 1)
          /\ \A k \in 1..(n - 1) : b[10 * k + 1] = COMMA

\* the text is one number: JSON, but no list
IsNumber(b) == Len(b) = 1 /\ Len(b[1]) = 2 /\ b[1][1] = "num"

\* json.loads raises JSONDecodeError unless the text is one JSON document
\* with nothing but whitespace after it
JSONDecodeError(bytes) ==
    LET b == rstrip(bytes) IN ~IsRecordList(b) /\ ~IsNumber(b)

\* json.loads: the Python value of the document, [type, value]
json_loads(bytes) ==
    LET b == rstrip(bytes)
        n == (Len(b) - 1) \div 10
    IN  IF IsNumber(b) THEN [type |-> "int", value |-> <<>>]
        ELSE [type |-> "list",
              value |-> [k \in 1..n |-> load_record(b, 10 * (k - 1) + 1)]]

----------------------------------------------------------------------------
(* The state one run threads through its calls *)

print(st, msg) == [st EXCEPT !.stdout = Append(@, msg)]

\* a file system call that leaves the file f in the folder d
syscall(st, f, d) ==
    [st EXCEPT !.file = f, !.folder = d,
               !.trace = Append(@, [file |-> f, folder |-> d])]

raise(st, exc) == [st EXCEPT !.exc = exc]

PermissionError ==
    [type |-> "PermissionError",
     args |-> <<"The passwords file at ", passwords_path,
                " doesn't have the correct permissions.">>]

\* "for dictionary in data" on a value that is no list
TypeError(type) ==
    [type |-> "TypeError", args |-> <<"'", type, "' object is not iterable">>]

CalledProcessError(argv) ==
    [type |-> "CalledProcessError",
     args |-> <<"Command '">> \o argv \o <<"' returned non-zero exit status 1.">>]

\* subprocess.run(argv, check=check): the command fails when the environment
\* says so (failing: the commands that exit non-zero); with check=True a
\* failure raises CalledProcessError
subprocess_run(st, argv, failing, check) ==
    LET ok == argv \notin failing
        s1 == [st EXCEPT !.cmds = Append(@, [argv |-> argv, ok |-> ok])]
    IN  IF check /\ ~ok THEN raise(s1, CalledProcessError(argv)) ELSE s1

unlock_corestorage(uuid, password) ==
    <<"diskutil", "coreStorage", "unlockVolume", uuid, "-passphrase", password>>

unlock_apfs(uuid, password) ==
    <<"diskutil", "apfs", "unlockVolume", uuid, "-passphrase", password>>

mount(uuid) == <<"diskutil", "mount", uuid>>

unmount(uuid) == <<"diskutil", "unmount", uuid>>

----------------------------------------------------------------------------
(* Secure store *)

\* the check of line 239 with S_IWGRP left out
bad_permissions_no_group(f) == f.uid # 0 \/ "S_IWOTH" \in f.mode

\* the check of line 239 asking for file_permissions exactly
bad_permissions_exact(f) == f.uid # 0 \/ f.mode # file_permissions

\* line 239: not owned by root, or writable by the group or by others
bad_permissions(f) == f.uid # 0 \/ "S_IWGRP" \in f.mode \/ "S_IWOTH" \in f.mode

\* get_json_secure: [exc, data, type]; data is the list json.loads returned,
\* type the Python type of what it returned when that is no list
get_json_secure(f) ==
    IF f.exists
    THEN IF bad_permissions(f)
         THEN [exc |-> PermissionError, data |-> <<>>, type |-> "list"]
         ELSE IF JSONDecodeError(f.bytes)
              THEN [exc |-> NoException, data |-> <<>>, type |-> "list"]
              ELSE [exc |-> NoException, data |-> json_loads(f.bytes).value,
                    type |-> json_loads(f.bytes).type]
    ELSE [exc |-> NoException, data |-> <<>>, type |-> "list"]

\* os.open(path, O_WRONLY | O_CREAT, mode): an existing file is opened as it
\* is, content and permissions kept; a missing one is created empty
os_open(f, mode) ==
    IF f.exists THEN f
    ELSE [exists |-> TRUE, bytes |-> <<>>, uid |-> 0, mode |-> mode]

\* writing text at offset 0 of a file opened without O_TRUNC
write(f, text) ==
    [f EXCEPT !.bytes = text \o SubSeq(@, Len(text) + 1, Len(@))]

\* line 168 left out, as its comment suggests it could be
os_remove_skipped(f) == f

os_remove(f) == [exists |-> FALSE, bytes |-> <<>>, uid |-> 0, mode |-> {}]

mkdir(d, mode) == IF d.exists THEN d ELSE [exists |-> TRUE, mode |-> mode]

\* mkdir of the parent if it is no directory, os.open, and the write of
\* print(json.dumps(data), file=output) when the file is closed
write_json_secure(st, data) ==
    LET s1 == IF st.folder.exists THEN st
              ELSE syscall(st, st.file, mkdir(st.folder, folder_permissions))
        s2 == syscall(s1, os_open(s1.file, file_permissions), s1.folder)
    IN  syscall(s2, write(s2.file, json_dumps(data) \o <<NEWLINE>>), s2.folder)

----------------------------------------------------------------------------
(* Unlock engine *)

\* the loop with lines 96 and 97 in the other order: mount before the unlock
RECURSIVE decrypt_loop_mount_first(_, _, _, _)
decrypt_loop_mount_first(st, data, i, failing) ==
    IF i > Len(data) THEN st
    ELSE
    LET uuid == data[i].uuid
        password == data[i].password
        disk_type == data[i].disk_type
    IN  IF disk_type = DISK_TYPE_CORESTORAGE
        THEN LET s1 == subprocess_run(st, mount(uuid), failing, TRUE)
                 s2 == subprocess_run(s1, unlock_corestorage(uuid, password), failing, TRUE)
             IN  IF s1.exc # NoException THEN s1
                 ELSE IF s2.exc # NoException THEN s2
                 ELSE decrypt_loop_mount_first(s2, data, i + 1, failing)
        ELSE IF disk_type = DISK_TYPE_APFS
        THEN LET s1 == subprocess_run(st, unlock_apfs(uuid, password), failing, TRUE)
             IN  IF s1.exc # NoException THEN s1
                 ELSE decrypt_loop_mount_first(s1, data, i + 1, failing)
        ELSE decrypt_loop_mount_first(st, data, i + 1, failing)

RECURSIVE decrypt_loop(_, _, _, _)
decrypt_loop(st, data, i, failing) ==
    IF i > Len(data) THEN st
    ELSE
    LET uuid == data[i].uuid
        password == data[i].password
        disk_type == data[i].disk_type
    IN  IF disk_type = DISK_TYPE_CORESTORAGE
        THEN LET s1 == subprocess_run(st, unlock_corestorage(uuid, password), failing, TRUE)
                 s2 == subprocess_run(s1, mount(uuid), failing, TRUE)
             IN  IF s1.exc # NoException THEN s1
                 ELSE IF s2.exc # NoException THEN s2
                 ELSE decrypt_loop(s2, data, i + 1, failing)
        ELSE IF disk_type = DISK_TYPE_APFS
        THEN LET s1 == subprocess_run(st, unlock_apfs(uuid, password), failing, TRUE)
             IN  IF s1.exc # NoException THEN s1
                 ELSE decrypt_loop(s1, data, i + 1, failing)
        ELSE decrypt_loop(st, data, i + 1, failing)

decrypt_disks(st, failing) ==
    LET r == get_json_secure(st.file) IN
    IF r.exc # NoException THEN raise(st, r.exc)
    ELSE IF r.type # "list" THEN raise(st, TypeError(r.type))
    ELSE decrypt_loop(st, r.data, 1, failing)

----------------------------------------------------------------------------
(* Credential lifecycle *)

\* "for dictionary in data[1:]": the first dictionary is skipped
uuid_in_data_tail(data, uuid) == \E i \in 2..Len(data) : data[i].uuid = uuid

\* a membership test that looks at the last dictionary only
uuid_in_data_last(data, uuid) == data # <<>> /\ data[Len(data)].uuid = uuid

\* "for dictionary in data: if uuid in dictionary.keys()"
uuid_in_data(data, uuid) == \E i \in DOMAIN data : data[i].uuid = uuid

\* "data = [d]" instead of "data.append(d)"
list_append_only(data, d) == <<d>>

list_append(data, d) == Append(data, d)

\* a removal that matches on the key alone
list_remove_by_uuid(data, d) ==
    IF \E i \in DOMAIN data : data[i].uuid = d.uuid
    THEN LET k == CHOOSE i \in DOMAIN data :
                      data[i].uuid = d.uuid /\ \A j \in 1..(i - 1) : data[j].uuid # d.uuid
         IN  [ValueError |-> FALSE,
              data |-> SubSeq(data, 1, k - 1) \o SubSeq(data, k + 1, Len(data))]
    ELSE [ValueError |-> TRUE, data |-> data]

\* list.remove(d): [ValueError, data], the first element equal to d removed
list_remove(data, d) ==
    IF \E i \in DOMAIN data : data[i] = d
    THEN LET k == CHOOSE i \in DOMAIN data :
                      data[i] = d /\ \A j \in 1..(i - 1) : data[j] # d
         IN  [ValueError |-> FALSE,
              data |-> SubSeq(data, 1, k - 1) \o SubSeq(data, k + 1, Len(data))]
    ELSE [ValueError |-> TRUE, data |-> data]

passwords_match(password_verification, password) ==
    password_verification = password

\* the "try" of add_disk: unmount, then the unlock of the disk's type
test_password(st, uuid, disk_type, password, failing) ==
    LET s1 == subprocess_run(st, unmount(uuid), failing, FALSE) IN
    IF disk_type = DISK_TYPE_CORESTORAGE
    THEN subprocess_run(s1, unlock_corestorage(uuid, password), failing, TRUE)
    ELSE IF disk_type = DISK_TYPE_APFS
    THEN subprocess_run(s1, unlock_apfs(uuid, password), failing, TRUE)
    ELSE s1

add_disk(st, uuid, disk_type, password, failing, password_verification) ==
    LET r == get_json_secure(st.file) IN
    IF r.exc # NoException THEN raise(st, r.exc)
    ELSE IF r.type # "list" THEN raise(st, TypeError(r.type))
    ELSE IF uuid_in_data(r.data, uuid)
    THEN print(st, <<"The UUID is already added to the JSON. Use \"com.juanjonol.unlock.py replace\" if you want to change it.">>)
    ELSE
    LET s1 == test_password(st, uuid, disk_type, password, failing)
        s2 == print(raise(s1, NoException),
                    <<"The password couldn't be automatically checked.">>)
        s3 == IF s1.exc # NoException THEN s2 ELSE s1
        s4 == write_json_secure(
                  s3, list_append(r.data, [uuid |-> uuid, password |-> password,
                                           disk_type |-> disk_type]))
    IN  IF s1.exc # NoException /\ ~passwords_match(password_verification, password)
        THEN print(s2, <<"ERROR: The passwords don't match.">>)
        ELSE print(s4, <<"Added disk with UUID ", uuid>>)

delete_disk(st, uuid, disk_type, password) ==
    LET r == get_json_secure(st.file) IN
    IF r.exc # NoException THEN raise(st, r.exc)
    ELSE IF r.type # "list" THEN raise(st, TypeError(r.type))
    ELSE IF uuid_in_data(r.data, uuid)
    THEN LET rm == list_remove(r.data, [uuid |-> uuid, password |-> password,
                                        disk_type |-> disk_type])
             s1 == syscall(st, os_remove(st.file), st.folder)
             s2 == write_json_secure(s1, rm.data)
         IN  IF rm.ValueError
             THEN print(st, <<"ERROR: the disk with UUID ", uuid,
                              " couldn't be deleted. Check that the password is correct.">>)
             ELSE print(s2, <<"Deleted disk with UUID ", uuid>>)
    ELSE print(st, <<"The UUID is not saved, or the password for that UUID is incorrect.">>)

\* the first record of data whose key is old_value, 0 if there is none
find_value(data, old_value) ==
    IF uuid_in_data(data, old_value)
    THEN CHOOSE i \in DOMAIN data :
             data[i].uuid = old_value /\ \A j \in 1..(i - 1) : data[j].uuid # old_value
    ELSE 0

replace_value(st, old_value, new_value, failing, password_verification) ==
    LET r == get_json_secure(st.file)
        k == find_value(r.data, old_value)
    IN
    IF r.exc # NoException THEN raise(st, r.exc)
    ELSE IF r.type # "list" THEN raise(st, TypeError(r.type))
    ELSE IF k = 0
    THEN print(st, <<"The value given is not saved, so it can't be replaced.">>)
    ELSE
    LET password == r.data[k].password
        disk_type == r.data[k].disk_type
        s1 == delete_disk(st, old_value, disk_type, password)
        s2 == add_disk(s1, new_value, disk_type, password, failing, password_verification)
    IN  IF s1.exc # NoException THEN s1
        ELSE IF s2.exc # NoException THEN s2
        ELSE print(s2, <<"Replaced UUID ", old_value, " with UUID ", new_value, ".">>)

----------------------------------------------------------------------------
(* Volume resolution *)

\* pattern.search(result): the place of the first label, 0 if there is none
search(result) ==
    IF \E i \in DOMAIN result : result[i] = LABEL
    THEN CHOOSE i \in DOMAIN result :
             result[i] = LABEL /\ \A j \in 1..(i - 1) : result[j] # LABEL
    ELSE 0

\* match.group(1) of "\s*(\S*)" after the label at k: the next word, and
\* the empty string when no word follows
group(result, k) == IF k < Len(result) THEN result[k + 1] ELSE ""

\* the "except" of get_uuid: whatever was raised ends here
not_resolved(st) ==
    [print(raise(st, NoException),
           <<"The given path is neither a CoreStorage disk nor an APFS volume.">>)
        EXCEPT !.ret = None]

\* result: the words "diskutil info" writes to its stdout
get_uuid(st, disk, result, failing) ==
    LET s1 == subprocess_run(st, <<"diskutil", "info", disk>>, failing, TRUE)
        k == search(result)
        uuid == group(result, k)
    IN  IF s1.exc # NoException THEN not_resolved(s1)
        ELSE IF k = 0 THEN not_resolved(s1)
        ELSE IF \E i \in DOMAIN result : result[i] = "HFS+"
        THEN [print(s1, <<uuid>>) EXCEPT
                 !.ret = [none |-> FALSE, uuid |-> uuid,
                          disk_type |-> DISK_TYPE_CORESTORAGE]]
        ELSE IF \E i \in DOMAIN result : result[i] = "APFS"
        THEN [print(s1, <<uuid>>) EXCEPT
                 !.ret = [none |-> FALSE, uuid |-> uuid,
                          disk_type |-> DISK_TYPE_APFS]]
        ELSE not_resolved(s1)

----------------------------------------------------------------------------
(* The process: main() under sys.excepthook = exception_handler *)

exception_handler(st) ==
    IF st.exc = NoException THEN st
    ELSE print(st, <<st.exc.type, ": ">> \o st.exc.args)

main(st, args) ==
    IF args.subcommand = "add"
    THEN add_disk(st, args.uuid, args.type, args.password,
                  args.failing, args.password_verification)
    ELSE IF args.subcommand = "delete"
    THEN delete_disk(st, args.uuid, args.type, args.password)
    ELSE IF args.subcommand = "replace"
    THEN replace_value(st, args.old, args.new, args.failing, args.password_verification)
    ELSE IF args.subcommand = "uuid"
    THEN get_uuid(st, args.disk, args.result, args.failing)
    ELSE decrypt_disks(st, args.failing)

\* the records a load of the file f returns
Records(f) == get_json_secure(f).data

NoFile == [exists |-> FALSE, bytes |-> <<>>, uid |-> 0, mode |-> {}]

NoCall == [subcommand |-> "none"]

\* a process at its start, with the file f in the folder d
Start(f, d) ==
    [file |-> f, folder |-> d, stdout |-> <<>>, cmds |-> <<>>, exc |-> NoException,
     trace |-> <<>>, ret |-> None]

NoProc == [st |-> Start(NoFile, [exists |-> FALSE, mode |-> {}]), todo |-> <<>>]

NoLoad == [loaded |-> FALSE, exc |-> NoException, data |-> <<>>]

\* one run of the program with the command line and inputs args; a run that
\* would leave more than MaxRecords records in the file is not taken
Run(args) ==
    \E st \in {exception_handler(main(Start(file, folder), args))} :
        /\ Len(Records(st.file)) <= MaxRecords
        /\ pc' = "exit"
        /\ file' = st.file
        /\ folder' = st.folder
        /\ call' = args
        /\ pre' = file
        /\ stdout' = st.stdout
        /\ cmds' = st.cmds
        /\ raised' = st.exc
        /\ returned' = st.ret
        /\ UNCHANGED <<proc, seen>>

\* the unlock of a record of type disk_type
UnlockCommand(uuid, disk_type, password) ==
    IF disk_type = DISK_TYPE_CORESTORAGE THEN {unlock_corestorage(uuid, password)}
    ELSE IF disk_type = DISK_TYPE_APFS THEN {unlock_apfs(uuid, password)}
    ELSE {}

\* the commands decrypt_disks checks the exit status of
UnlockCommands(data) ==
    UNION {UnlockCommand(data[i].uuid, data[i].disk_type, data[i].password)
           \cup (IF data[i].disk_type = DISK_TYPE_CORESTORAGE
                 THEN {mount(data[i].uuid)} ELSE {}) : i \in DOMAIN data}

Init ==
    /\ pc = "shell"
    /\ file = NoFile
    /\ folder = [exists |-> FALSE, mode |-> {}]
    /\ call = NoCall
    /\ pre = file
    /\ stdout = <<>>
    /\ cmds = <<>>
    /\ raised = NoException
    /\ proc = NoProc
    /\ seen = NoLoad
    /\ returned = None

Execute ==
    /\ pc = "shell"
    /\ \E failing \in SUBSET UnlockCommands(Records(file)) :
        Run([subcommand |-> "execute", failing |-> failing])

\* the exit status of unmount is never read: only the unlock may fail
Add ==
    /\ pc = "shell"
    /\ \E uuid \in UUIDs, disk_type \in DiskTypes, password \in Passwords,
       password_verification \in Passwords :
        \E failing \in SUBSET UnlockCommand(uuid, disk_type, password) :
            Run([subcommand |-> "add", uuid |-> uuid, type |-> disk_type,
                 password |-> password, failing |-> failing,
                 password_verification |-> password_verification])

Delete ==
    /\ pc = "shell"
    /\ \E uuid \in UUIDs, disk_type \in DiskTypes, password \in Passwords :
        Run([subcommand |-> "delete", uuid |-> uuid, type |-> disk_type,
             password |-> password])

Replace ==
    /\ pc = "shell"
    /\ \E old \in UUIDs, new \in UUIDs, password_verification \in Passwords :
        \E failing \in SUBSET UNION {UnlockCommand(new, d.disk_type, d.password) :
                                        d \in {Records(file)[i] : i \in DOMAIN Records(file)}} :
            Run([subcommand |-> "replace", old |-> old, new |-> new,
                 failing |-> failing,
                 password_verification |-> password_verification])

\* sys.exit(main()): the process ends
Exit ==
    /\ pc = "exit"
    /\ pc' = "shell"
    /\ call' = NoCall
    /\ pre' = file
    /\ stdout' = <<>>
    /\ cmds' = <<>>
    /\ raised' = NoException
    /\ returned' = None
    /\ UNCHANGED <<file, folder, proc, seen>>

Next == Execute \/ Add \/ Delete \/ Replace \/ Exit

Spec == Init /\ [][Next]_vars

----------------------------------------------------------------------------
(* The program started on a path where something already is: a file that   *)
(* another program, or an earlier version of this one, left there          *)

EnvOwners == {0, 501}

\* 0600, 0644, 0620 and 0602
EnvModes ==
    {file_permissions,
     file_permissions \cup {"S_IRGRP", "S_IROTH"},
     file_permissions \cup {"S_IWGRP"},
     file_permissions \cup {"S_IWOTH"}}

EnvRecord(uuid) == [uuid |-> uuid, password |-> "x", disk_type |-> DISK_TYPE_APFS]

\* nothing; a JSON number; a text cut off; a list of one record; a list of
\* two records
EnvContents ==
    {<<>>,
     <<Num("1"), NEWLINE>>,
     <<LBRACKET, LBRACE, NEWLINE>>,
     json_dumps(<<EnvRecord("ABCD-1")>>) \o <<NEWLINE>>,
     json_dumps(<<EnvRecord("ABCD-1"), EnvRecord("ABCD-2")>>) \o <<NEWLINE>>}

EnvFiles ==
    {[exists |-> TRUE, bytes |-> b, uid |-> u, mode |-> m] :
        b \in EnvContents, u \in EnvOwners, m \in EnvModes}

\* 0700 and 0755
EnvFolders ==
    {[exists |-> TRUE, mode |-> folder_permissions],
     [exists |-> TRUE, mode |-> folder_permissions
                                \cup {"S_IRGRP", "S_IXGRP", "S_IROTH", "S_IXOTH"}]}

EnvUUIDs == {"ABCD-1", "ABCD-2"}

InitEnv ==
    /\ pc = "shell"
    /\ file \in EnvFiles
    /\ folder \in EnvFolders
    /\ call = NoCall
    /\ pre = file
    /\ stdout = <<>>
    /\ cmds = <<>>
    /\ raised = NoException
    /\ proc = NoProc
    /\ seen = NoLoad
    /\ returned = None

ExecuteEnv ==
    /\ pc = "shell"
    /\ \E failing \in SUBSET UnlockCommands(Records(file)) :
        Run([subcommand |-> "execute", failing |-> failing])

AddEnv ==
    /\ pc = "shell"
    /\ \E uuid \in EnvUUIDs :
        \E failing \in SUBSET UnlockCommand(uuid, DISK_TYPE_APFS, "x") :
            Run([subcommand |-> "add", uuid |-> uuid, type |-> DISK_TYPE_APFS,
                 password |-> "x", failing |-> failing,
                 password_verification |-> "x"])

DeleteEnv ==
    /\ pc = "shell"
    /\ \E uuid \in EnvUUIDs :
        Run([subcommand |-> "delete", uuid |-> uuid, type |-> DISK_TYPE_APFS,
             password |-> "x"])

ReplaceEnv ==
    /\ pc = "shell"
    /\ \E old \in EnvUUIDs, new \in EnvUUIDs :
        Run([subcommand |-> "replace", old |-> old, new |-> new,
             failing |-> {}, password_verification |-> "x"])

NextEnv == ExecuteEnv \/ AddEnv \/ DeleteEnv \/ ReplaceEnv \/ Exit

SpecEnv == InitEnv /\ [][NextEnv]_vars

----------------------------------------------------------------------------
(* add and delete one file system call at a time, while another process    *)
(* loads the file                                                          *)

\* the process starts: it loads the file, and what it will do to the file
\* system follows from what it loaded
Begin(args) ==
    \E st \in {exception_handler(main(Start(file, folder), args))} :
        /\ Len(Records(st.file)) <= MaxRecords
        /\ pc' = "running"
        /\ proc' = [st |-> st, todo |-> st.trace]
        /\ call' = args
        /\ pre' = file
        /\ seen' = NoLoad
        /\ UNCHANGED <<file, folder, stdout, cmds, raised, returned>>

AddBegin ==
    /\ pc = "shell"
    /\ \E uuid \in EnvUUIDs :
        \E failing \in SUBSET UnlockCommand(uuid, DISK_TYPE_APFS, "x") :
            Begin([subcommand |-> "add", uuid |-> uuid, type |-> DISK_TYPE_APFS,
                   password |-> "x", failing |-> failing,
                   password_verification |-> "x"])

DeleteBegin ==
    /\ pc = "shell"
    /\ \E uuid \in EnvUUIDs :
        Begin([subcommand |-> "delete", uuid |-> uuid, type |-> DISK_TYPE_APFS,
               password |-> "x"])

\* the next of os.remove, mkdir, os.open and the write
FileSystemCall ==
    /\ pc = "running"
    /\ proc.todo # <<>>
    /\ file' = Head(proc.todo).file
    /\ folder' = Head(proc.todo).folder
    /\ proc' = [proc EXCEPT !.todo = Tail(@)]
    /\ UNCHANGED <<call, pre, stdout, cmds, raised, pc, seen, returned>>

\* get_json_secure(passwords_path) in another process
OtherLoad ==
    /\ pc = "running"
    /\ seen' = [loaded |-> TRUE, exc |-> get_json_secure(file).exc,
                data |-> get_json_secure(file).data]
    /\ UNCHANGED <<file, folder, call, pre, stdout, cmds, raised, pc, proc, returned>>

\* main() returns
Finish ==
    /\ pc = "running"
    /\ proc.todo = <<>>
    /\ pc' = "exit"
    /\ stdout' = proc.st.stdout
    /\ cmds' = proc.st.cmds
    /\ raised' = proc.st.exc
    /\ returned' = proc.st.ret
    /\ proc' = NoProc
    /\ seen' = NoLoad
    /\ UNCHANGED <<file, folder, call, pre>>

NextConc == AddBegin \/ DeleteBegin \/ FileSystemCall \/ OtherLoad \/ Finish \/ Exit

SpecConc == Init /\ [][NextConc]_vars

----------------------------------------------------------------------------
(* The subcommand uuid: what "diskutil info" answers is the input *)

Results == UNION {[1..n -> Words] : n \in 0..MaxWords}

Uuid ==
    /\ pc = "shell"
    /\ \E disk \in Disks, result \in Results :
        \E failing \in SUBSET {<<"diskutil", "info", disk>>} :
            Run([subcommand |-> "uuid", disk |-> disk, result |-> result,
                 failing |-> failing])

NextResolve == Uuid \/ Exit

SpecResolve == Init /\ [][NextResolve]_vars

----------------------------------------------------------------------------
(* write_json_secure and get_json_secure by themselves, on a file that      *)
(* passes the check of line 239                                             *)

\* nothing; a text cut off; lists of one and of two records as
\* write_json_secure leaves them; a list of one record with no newline
StoreContents ==
    {<<>>,
     <<LBRACKET, LBRACE, NEWLINE>>,
     json_dumps(<<EnvRecord("ABCD-1")>>) \o <<NEWLINE>>,
     json_dumps(<<EnvRecord("ABCD-1"), EnvRecord("ABCD-2")>>) \o <<NEWLINE>>,
     json_dumps(<<EnvRecord("ABCD-2")>>)}

StoreFiles ==
    {f \in {[exists |-> TRUE, bytes |-> b, uid |-> 0, mode |-> m] :
                b \in StoreContents, m \in EnvModes} : ~bad_permissions(f)}

\* the lists write_json_secure is called with
StoreLists == UNION {[1..n -> {EnvRecord(u) : u \in EnvUUIDs}] : n \in 0..MaxRecords}

InitStore ==
    /\ pc = "shell"
    /\ file \in StoreFiles
    /\ folder = [exists |-> TRUE, mode |-> folder_permissions]
    /\ call = NoCall
    /\ pre = file
    /\ stdout = <<>>
    /\ cmds = <<>>
    /\ raised = NoException
    /\ proc = NoProc
    /\ seen = NoLoad
    /\ returned = None

\* write_json_secure(data, passwords_path)
Save ==
    /\ pc = "shell"
    /\ \E data \in StoreLists :
        \E st \in {write_json_secure(Start(file, folder), data)} :
            /\ pc' = "saved"
            /\ file' = st.file
            /\ folder' = st.folder
            /\ call' = [subcommand |-> "save", data |-> data]
            /\ pre' = file
            /\ UNCHANGED <<stdout, cmds, raised, proc, seen, returned>>

\* get_json_secure(passwords_path) after the write
Load ==
    /\ pc = "saved"
    /\ pc' = "loaded"
    /\ returned' = get_json_secure(file)
    /\ UNCHANGED <<file, folder, call, pre, stdout, cmds, raised, proc, seen>>

\* write_json_secure(get_json_secure(passwords_path), passwords_path)
SaveLoaded ==
    /\ pc = "shell"
    /\ \E r \in {get_json_secure(file)} :
        /\ r.exc = NoException
        /\ r.type = "list"
        /\ \E st \in {write_json_secure(Start(file, folder), r.data)} :
            /\ pc' = "loaded"
            /\ file' = st.file
            /\ folder' = st.folder
            /\ call' = [subcommand |-> "save(load())", data |-> r.data]
            /\ pre' = file
            /\ returned' = None
            /\ UNCHANGED <<stdout, cmds, raised, proc, seen>>

Return ==
    /\ pc = "loaded"
    /\ pc' = "shell"
    /\ call' = NoCall
    /\ pre' = file
    /\ returned' = None
    /\ UNCHANGED <<file, folder, stdout, cmds, raised, proc, seen>>

NextStore == Save \/ Load \/ SaveLoaded \/ Return

SpecStore == InitStore /\ [][NextStore]_vars

----------------------------------------------------------------------------
(* What the claims speak of *)

Ran(subcommand) == pc = "exit" /\ call.subcommand = subcommand

PreRecords == Records(pre)

PostRecords == Records(file)

HasRecord(data, uuid) == \E i \in DOMAIN data : data[i].uuid = uuid

Issued(argv) == \E i \in DOMAIN cmds : cmds[i].argv = argv

Failed(argv) == \E i \in DOMAIN cmds : cmds[i].argv = argv /\ ~cmds[i].ok

Succeeded(argv) == \E i \in DOMAIN cmds : cmds[i].argv = argv /\ cmds[i].ok

\* the messages of stdout that report a failed command
FailureReports == {i \in DOMAIN stdout : stdout[i][1] = "CalledProcessError"}

\* every record of data but those for uuid, in order
RECURSIVE Without(_, _)
Without(data, uuid) ==
    IF data = <<>> THEN <<>>
    ELSE IF data[1].uuid = uuid THEN Without(Tail(data), uuid)
    ELSE <<data[1]>> \o Without(Tail(data), uuid)

\* the records of data for uuid
RecordsFor(data, uuid) == {i \in DOMAIN data : data[i].uuid = uuid}

\* the unlock command of the record d
RecordUnlock(d) == UnlockCommand(d.uuid, d.disk_type, d.password)

\* C1: bulk unlock: if the unlock of record k fails, the unlock is still
\* issued for each of the records k+1..N, and exactly one failure is reported
C1_BulkUnlockContinues ==
    Ran("execute") =>
        \A k \in DOMAIN PreRecords :
            (\E c \in RecordUnlock(PreRecords[k]) : Failed(c)) =>
                /\ \A j \in (k + 1)..Len(PreRecords) :
                       \A c \in RecordUnlock(PreRecords[j]) : Issued(c)
                /\ Cardinality(FailureReports) = 1

\* C2: no message any run prints, the one for an unhandled failure of an
\* external command included, contains a stored or supplied secret
C2_NoSecretPrinted ==
    \A i \in DOMAIN stdout : \A j \in DOMAIN stdout[i] : stdout[i][j] \notin Passwords

\* C3: after any sequence of add, delete and replace from the empty store,
\* no two records of the store have the same volume_id
C3_UniqueVolumeId ==
    \A i, j \in DOMAIN PostRecords :
        PostRecords[i].uuid = PostRecords[j].uuid => i = j

C3_Witness ==
    /\ pc = "exit"
    /\ call.subcommand \in {"add", "replace"}
    /\ Len(PostRecords) = 2
    /\ PostRecords # PreRecords

\* the secret given to add was verified in this run: the unlock of the
\* disk's type succeeded, or it failed and the secret typed again is the same
AddVerified ==
    LET unlock == UnlockCommand(call.uuid, call.type, call.password) IN
    \/ \E c \in unlock : Succeeded(c)
    \/ /\ \E c \in unlock : Failed(c)
       /\ call.password_verification = call.password

\* C4: add persists a record only if the secret was verified in that run,
\* for every type passed to add; every other run of add leaves the store as
\* it was
C4_AddPersistsOnlyVerified ==
    Ran("add") => (AddVerified \/ file = pre)

\* C5: add of a volume_id the store already has is rejected as a duplicate
\* and leaves the store unchanged, whatever secret and type are supplied
C5_AddDuplicateRejected ==
    (Ran("add") /\ HasRecord(PreRecords, call.uuid)) =>
        /\ file = pre
        /\ cmds = <<>>
        /\ raised = NoException
        /\ stdout = <<<<"The UUID is already added to the JSON. Use \"com.juanjonol.unlock.py replace\" if you want to change it.">>>>

C5_Witness ==
    /\ Ran("add")
    /\ Len(PreRecords) = 2
    /\ \E i \in DOMAIN PreRecords :
           /\ PreRecords[i].uuid = call.uuid
           /\ PreRecords[i].password # call.password
           /\ PreRecords[i].disk_type # call.type

\* C6: add of a volume_id the store has no record for, with the secret
\* verified, ends with the previous records unchanged plus exactly one
\* record for volume_id, carrying the supplied secret and type
C6_AddAppendsRecord ==
    (Ran("add") /\ ~HasRecord(PreRecords, call.uuid) /\ AddVerified) =>
        /\ Without(PostRecords, call.uuid) = PreRecords
        /\ Cardinality(RecordsFor(PostRecords, call.uuid)) = 1
        /\ \A i \in RecordsFor(PostRecords, call.uuid) :
               PostRecords[i] = [uuid |-> call.uuid, password |-> call.password,
                                 disk_type |-> call.type]
        /\ raised = NoException

C6_Witness ==
    /\ Ran("add")
    /\ ~HasRecord(PreRecords, call.uuid)
    /\ AddVerified
    /\ Len(PreRecords) = 1
    /\ \E c \in UnlockCommand(call.uuid, call.type, call.password) : Failed(c)

\* C7: delete leaves the store unchanged whenever the store has no record
\* for volume_id or the secret stored for it differs from the supplied one;
\* both outcomes are reported and neither ends the run with an exception
C7_DeleteMissOrMismatch ==
    Ran("delete") =>
        /\ ~HasRecord(PreRecords, call.uuid) =>
               /\ file = pre
               /\ raised = NoException
               /\ stdout = <<<<"The UUID is not saved, or the password for that UUID is incorrect.">>>>
        /\ (\E i \in DOMAIN PreRecords : /\ PreRecords[i].uuid = call.uuid
                                         /\ PreRecords[i].password # call.password) =>
               /\ file = pre
               /\ raised = NoException
               /\ stdout = <<<<"ERROR: the disk with UUID ", call.uuid,
                               " couldn't be deleted. Check that the password is correct.">>>>

C7_Witness ==
    /\ Ran("delete")
    /\ Len(PreRecords) = 2
    /\ \E i \in DOMAIN PreRecords : /\ PreRecords[i].uuid = call.uuid
                                    /\ PreRecords[i].password # call.password
                                    /\ PreRecords[i].disk_type = call.type

\* C8: delete on a store whose record for volume_id holds the supplied
\* secret, whatever type is supplied, removes exactly that record
C8_DeleteWhateverKind ==
    (Ran("delete") /\ \E i \in DOMAIN PreRecords : /\ PreRecords[i].uuid = call.uuid
                                                   /\ PreRecords[i].password = call.password) =>
        /\ ~HasRecord(PostRecords, call.uuid)
        /\ PostRecords = Without(PreRecords, call.uuid)

\* the record replace found for old, and whether the add of new ended with
\* the secret unverified: the unlock failed and the secret typed again differs
ReplaceUnverified ==
    \E i \in DOMAIN PreRecords :
        /\ PreRecords[i].uuid = call.old
        /\ \E c \in UnlockCommand(call.new, PreRecords[i].disk_type, PreRecords[i].password) :
               Failed(c)
        /\ call.password_verification # PreRecords[i].password

ReplaceMoved ==
    /\ ~HasRecord(PostRecords, call.old)
    /\ Cardinality(RecordsFor(PostRecords, call.new)) = 1
    /\ \A i \in RecordsFor(PostRecords, call.new) :
           \E k \in RecordsFor(PreRecords, call.old) :
               PostRecords[i] = [PreRecords[k] EXCEPT !.uuid = call.new]
    /\ Without(PostRecords, call.new) = Without(PreRecords, call.old)

\* C9 as claimed: replace on a store with a record for old and none for new
\* ends with exactly one record for new carrying old's secret and type, no
\* record for old, every other record unchanged
C9_ReplaceMoves ==
    (Ran("replace") /\ HasRecord(PreRecords, call.old) /\ ~HasRecord(PreRecords, call.new)) =>
        ReplaceMoved

\* C9 amended: the same, unless the unlock of new fails and the secret typed
\* again differs from the stored one
C9_ReplaceMovesWhenVerified ==
    (/\ Ran("replace")
     /\ HasRecord(PreRecords, call.old)
     /\ ~HasRecord(PreRecords, call.new)
     /\ ~ReplaceUnverified) =>
        ReplaceMoved

C9_Witness ==
    /\ Ran("replace")
    /\ HasRecord(PreRecords, call.old)
    /\ ~HasRecord(PreRecords, call.new)
    /\ ~ReplaceUnverified
    /\ Len(PreRecords) = 2
    /\ PreRecords[1].uuid = call.old
    /\ Failed(unlock_apfs(call.new, PreRecords[1].password))

\* C10: a replace that ends in a reported error (old not found, new already
\* in the store, or the secret not verified for new) leaves the persisted
\* store as it was before the replace (stated for old and new different)
C10_ReplaceErrorLeavesStore ==
    (/\ Ran("replace")
     /\ call.old # call.new
     /\ raised = NoException
     /\ \/ ~HasRecord(PreRecords, call.old)
        \/ HasRecord(PreRecords, call.new)
        \/ ReplaceUnverified) =>
        PostRecords = PreRecords

\* the run of the same command line, with the same external inputs, once more
Again == exception_handler(main(Start(file, folder), call))

\* C18: add, delete and replace are idempotent-safe: the run repeated with
\* the same inputs and the same outcomes of the external commands ends in
\* the store the first run ended in, and never in two records for one uuid
C18_Idempotent ==
    (pc = "exit" /\ call.subcommand \in {"add", "delete", "replace"}) =>
        /\ Records(Again.file) = PostRecords
        /\ \A i, j \in DOMAIN Records(Again.file) :
               Records(Again.file)[i].uuid = Records(Again.file)[j].uuid => i = j

C18_Witness ==
    /\ Ran("replace")
    /\ PostRecords # PreRecords
    /\ Len(PostRecords) = 2
    /\ Again.stdout # stdout

\* the commands execute issues for the records data when none fails
RECURSIVE ExpectedCommands(_)
ExpectedCommands(data) ==
    IF data = <<>> THEN <<>>
    ELSE (IF data[1].disk_type = "CoreStorage"
          THEN <<<<"diskutil", "coreStorage", "unlockVolume", data[1].uuid,
                   "-passphrase", data[1].password>>,
                 <<"diskutil", "mount", data[1].uuid>>>>
          ELSE IF data[1].disk_type = "APFS"
          THEN <<<<"diskutil", "apfs", "unlockVolume", data[1].uuid,
                   "-passphrase", data[1].password>>>>
          ELSE <<>>)
         \o ExpectedCommands(Tail(data))

\* C20: execute issues its commands in store order, for a CoreStorage record
\* the unlock and then the mount of the same uuid, the mount only after the
\* unlock succeeded, for an APFS record the unlock and no mount; it goes on
\* as long as no command fails, and it never writes the store
C20_ExecuteOrder ==
    Ran("execute") =>
        LET expected == ExpectedCommands(PreRecords) IN
        /\ Len(cmds) <= Len(expected)
        /\ \A i \in DOMAIN cmds : cmds[i].argv = expected[i]
        /\ \A i \in 1..(Len(cmds) - 1) : cmds[i].ok
        /\ (\A i \in DOMAIN cmds : cmds[i].ok) => Len(cmds) = Len(expected)
        /\ file = pre

C20_Witness ==
    /\ Ran("execute")
    /\ Len(PreRecords) = 2
    /\ PreRecords[1].disk_type = "CoreStorage"
    /\ PreRecords[2].disk_type = "APFS"
    /\ Len(cmds) = 3
    /\ \A i \in DOMAIN cmds : cmds[i].ok

\* the file the run started on is there and fails the check of its owner
\* and of its write permissions
PreUntrusted ==
    pre.exists /\ (pre.uid # 0 \/ "S_IWGRP" \in pre.mode \/ "S_IWOTH" \in pre.mode)

\* C12: after every save, on the add path and on the delete path, the file
\* is readable and writable by its owner only, whatever the permissions of
\* the file that was there before
C12_SavedFileOwnerOnly ==
    (pc = "exit" /\ call.subcommand \in {"add", "delete"} /\ file # pre) =>
        file.mode = {"S_IRUSR", "S_IWUSR"}

\* C13: a file that is not owned by root, or that its group or others may
\* write, makes the load fail with PermissionError whatever its content, and
\* the run writes nothing and issues no command
C13_UntrustedFileRejected ==
    (pc = "exit" /\ PreUntrusted) =>
        /\ raised.type = "PermissionError"
        /\ file = pre
        /\ cmds = <<>>

C13_Witness ==
    /\ Ran("add")
    /\ pre.uid = 0
    /\ "S_IWGRP" \in pre.mode
    /\ ~JSONDecodeError(pre.bytes)
    /\ raised.type = "PermissionError"

\* C14 as stated: whatever departs from mode 0600 of the file, from mode
\* 0700 of the folder, or from root as the owner, is fatal on load
C14_AnyDeviationFatal ==
    (pc = "exit" /\ pre.exists
        /\ (pre.mode # {"S_IRUSR", "S_IWUSR"} \/ pre.uid # 0
            \/ folder.mode # {"S_IRUSR", "S_IWUSR", "S_IXUSR"})) =>
        raised.type = "PermissionError"

\* C14: the load is fatal exactly when the file is there and is not owned
\* by root or may be written by its group or by others; read access of
\* group and others, and the mode of the folder, are not looked at
C14_FatalIffUntrusted ==
    pc = "exit" => (raised.type = "PermissionError" <=> PreUntrusted)

C14_Witness ==
    /\ Ran("execute")
    /\ pre.uid = 0
    /\ pre.mode = {"S_IRUSR", "S_IWUSR", "S_IRGRP", "S_IROTH"}
    /\ folder.mode # {"S_IRUSR", "S_IWUSR", "S_IXUSR"}
    /\ raised = NoException
    /\ Len(cmds) = 2

\* C15: a file with valid owner and permissions whose content is not a
\* serialized list of records loads as the empty list without an error:
\* execute issues no command and ends normally
C15_CorruptContentTolerated ==
    (Ran("execute") /\ pre.exists /\ ~PreUntrusted
        /\ ~IsRecordList(rstrip(pre.bytes))) =>
        /\ raised = NoException
        /\ cmds = <<>>

\* C16: whatever file that passes the check is at the path, of whatever
\* content and length, a load after the save of a list returns that list
C16_SaveThenLoad ==
    (pc = "loaded" /\ call.subcommand = "save" /\ ~PreUntrusted) =>
        /\ returned.exc = NoException
        /\ returned.data = call.data

\* C17 as stated: for every file that passes the check, saving what a load
\* returned leaves the content of the file as it was
C17_RoundTrip ==
    (pc = "loaded" /\ call.subcommand = "save(load())" /\ ~PreUntrusted) =>
        file.bytes = pre.bytes

\* the content of the file the call started on is a list of records
\* followed by one newline: what a save writes
PreAsSaved ==
    /\ IsRecordList(rstrip(pre.bytes))
    /\ pre.bytes = rstrip(pre.bytes) \o <<NEWLINE>>

\* C17: for every file that passes the check and whose content is what a
\* save writes for some list of records, saving what a load returned
\* leaves the content as it was
C17_RoundTripOfSaved ==
    (pc = "loaded" /\ call.subcommand = "save(load())" /\ ~PreUntrusted
        /\ PreAsSaved) =>
        file.bytes = pre.bytes

C17_Witness ==
    /\ pc = "loaded"
    /\ call.subcommand = "save(load())"
    /\ PreAsSaved
    /\ Len(call.data) = 2
    /\ file.bytes = pre.bytes

\* the output of the info query has the word w
HasWord(w) == \E i \in DOMAIN call.result : call.result[i] = w

\* the word that follows the first label of the output, if one does
Labelled(w) ==
    \E i \in 1..(Len(call.result) - 1) :
        /\ call.result[i] = LABEL
        /\ \A j \in 1..(i - 1) : call.result[j] # LABEL
        /\ call.result[i + 1] = w

\* C19: get_uuid fails when the info query exits non-zero, when no token
\* follows the label in its output, or when the output has neither HFS+
\* nor APFS; otherwise it returns the token that follows the label, with
\* CoreStorage if the output has HFS+ (also when it has APFS too) and with
\* APFS if it has APFS only
C19_Resolve ==
    Ran("uuid") =>
        IF \/ call.failing # {}
           \/ ~(\E w \in Words : Labelled(w))
           \/ ~(HasWord("HFS+") \/ HasWord("APFS"))
        THEN returned = None
        ELSE /\ returned # None
             /\ Labelled(returned.uuid)
             /\ returned.disk_type =
                    (IF HasWord("HFS+") THEN "CoreStorage" ELSE "APFS")

\* C11: while add saves, and while delete removes and saves, a load by
\* another process returns the records as they were before the write or as
\* they are after it, never less
C11_ReaderSeesBeforeOrAfter ==
    (pc = "running" /\ seen.loaded) =>
        /\ seen.exc = NoException
        /\ seen.data \in {Records(pre), Records(proc.st.file)}

====
